---------------------------- MODULE Spec2Model ----------------------------
(***************************************************************************)
(* Subtracker backend: the subscription inference engine                   *)
(* (backend/detection.py) and the HTTP handlers that feed and edit its     *)
(* store (backend/api_routes.py), over the tables of backend/models.py.    *)
(*                                                                         *)
(* Conventions of the model                                                *)
(*   - a Python str is a sequence of one-character strings;                *)
(*   - a nullable column is Null (<<>>) or Some(v) (<<v>>);                *)
(*   - a float amount is an integer number of cents, a confidence an       *)
(*     integer number of hundredths (0.7 is 70);                           *)
(*   - a date string "Y-M-D" is the record of its three numbers and of     *)
(*     whether month and day are written zero-padded; it parses iff the    *)
(*     numbers name a calendar day;                                        *)
(*   - a timestamp (datetime.utcnow()) is an instant of the clock, a       *)
(*     number; TicksPerDay consecutive instants fall on one day.           *)
(***************************************************************************)
EXTENDS Integers, Sequences, FiniteSets

VARIABLES
    vendors,        \* committed rows of table vendors, in id order
    transactions,   \* committed rows of table transactions, in id order
    subscriptions,  \* committed rows of table subscriptions, in id order
    invoices,       \* committed rows of table invoices, in id order
    clock,          \* the wall clock: the current instant
    lastOp,         \* the last handler that returned, and how
    proc,           \* the detection runs in progress (concurrent requests)
    wlock           \* the holder of the database write lock, 0 if free

vars == <<vendors, transactions, subscriptions, invoices, clock, lastOp, proc, wlock>>

(***************************************************************************)
(* Nullable values                                                         *)
(***************************************************************************)
Null == <<>>
Some(v) == <<v>>
Val(o) == o[1]
IsNull(o) == o = <<>>

\* the element of a one-element set; { F(x) : x \in {e} } evaluates e once
Only(S) == CHOOSE v \in S : TRUE

(***************************************************************************)
(* Strings                                                                 *)
(***************************************************************************)
UpperCase == <<"A","B","C","D","E","F","G","H","I","J","K","L","M","N","O","P","Q","R","S","T","U","V","W","X","Y","Z">>
LowerCase == <<"a","b","c","d","e","f","g","h","i","j","k","l","m","n","o","p","q","r","s","t","u","v","w","x","y","z">>

\* str.lower() and str.upper() on one character
ToLower == [c \in {UpperCase[i] : i \in 1..26} |->
               LowerCase[CHOOSE i \in 1..26 : UpperCase[i] = c]]
ToUpper == [c \in {LowerCase[i] : i \in 1..26} |->
               UpperCase[CHOOSE i \in 1..26 : LowerCase[i] = c]]
LowerChar(c) == IF c \in DOMAIN ToLower THEN ToLower[c] ELSE c
UpperChar(c) == IF c \in DOMAIN ToUpper THEN ToUpper[c] ELSE c
Lower(s) == [i \in 1..Len(s) |-> LowerChar(s[i])]
Upper(s) == [i \in 1..Len(s) |-> UpperChar(s[i])]

\* the characters the regex class \s and str.strip() take for white space
IsSpace(c) == c \in {" ", "\t", "\n"}

RECURSIVE LStrip(_)
LStrip(s) == IF s = <<>> \/ ~IsSpace(Head(s)) THEN s ELSE LStrip(Tail(s))
RECURSIVE RStrip(_)
RStrip(s) ==
    IF s = <<>> \/ ~IsSpace(s[Len(s)]) THEN s ELSE RStrip(SubSeq(s, 1, Len(s) - 1))
Strip(s) == RStrip(LStrip(s))

\* re.sub(r"\s+", " ", s): a white space character that follows another is
\* dropped, the first of each run becomes one blank
CollapseSpaces(s) ==
    Only({ [j \in 1..Len(keep) |-> IF IsSpace(s[keep[j]]) THEN " " ELSE s[keep[j]]]
           : keep \in {SelectSeq([i \in 1..Len(s) |-> i],
                                 LAMBDA i : ~(IsSpace(s[i]) /\ i > 1 /\ IsSpace(s[i - 1])))} })

\* Python's truth value of an optional str: None and "" are falsy
Truthy(o) == ~IsNull(o) /\ Val(o) # <<>>
\* (s or "")
OrEmpty(o) == IF Truthy(o) THEN Val(o) ELSE <<>>

\* _norm(s): strip, lower, collapse white space runs
Norm(o) ==
    Only({ CollapseSpaces(Lower(t)) : t \in { Only({ Strip(v) : v \in {OrEmpty(o)} }) } })

\* b in n (substring)
Contains(n, b) ==
    \E i \in 1..(Len(n) - Len(b) + 1) : n[i] = b[1] /\ SubSeq(n, i, i + Len(b) - 1) = b

NAME_BLACKLIST == {
      <<"s","t","a","r","b","u","c","k","s">>,
      <<"m","c","d","o","n","a","l","d">>,
      <<"k","f","c">>,
      <<"c","r","e","d","i","t"," ","c","a","r","d">>,
      <<"i","n","t","r","s","t"," ","p","y","m","n","t">>,
      <<"a","u","t","o","m","a","t","i","c"," ","p","a","y","m","e","n","t">>,
      <<"a","c","h"," ","e","l","e","c","t","r","o","n","i","c"," ","c","r","e","d","i","t">>,
      <<"c","d"," ","d","e","p","o","s","i","t">>,
      <<"g","u","s","t","o"," ","p","a","y">>,
      <<"p","a","y","r","o","l","l">>,
      <<"d","e","p","o","s","i","t">>,
      <<"t","h","a","n","k">>,
      <<"a","t","m">>,
      <<"p","o","s">>,
      <<"g","a","s">> }

PFC_PRIMARY_EXCLUDE == {
      <<"I","N","C","O","M","E">>,
      <<"T","R","A","N","S","F","E","R","_","I","N">>,
      <<"T","R","A","N","S","F","E","R","_","O","U","T">>,
      <<"L","O","A","N","_","P","A","Y","M","E","N","T","S">>,
      <<"B","A","N","K","_","F","E","E","S">>,
      <<"S","A","V","I","N","G","S">> }

WINDOW_DAYS == 150

\* The merchant names of the inputs that are tried
NETFLIX == <<"N","e","t","f","l","i","x">>
ADOBE == <<"A","d","o","b","e"," ","I","n","c",".">>
ADOBE_UPPER == <<"A","D","O","B","E"," ","I","N","C",".">>
SPOTIFY == <<"S","p","o","t","i","f","y">>
STARBUCKS == <<"S","t","a","r","b","u","c","k","s">>
HULU == <<"H","u","l","u">>
DISNEY == <<"D","i","s","n","e","y">>
GAS_CO == <<"G","a","s"," ","C","o">>
ACME == <<"A","c","m","e">>
MerchantNames ==
    {NETFLIX, ADOBE, ADOBE_UPPER, SPOTIFY, STARBUCKS, HULU, DISNEY, GAS_CO, ACME}

\* any(b in n for b in NAME_BLACKLIST) (line 28)
Blacklisted(n) == \E b \in NAME_BLACKLIST : Contains(n, b)

\* _norm and the blacklist test, evaluated once for each name of MerchantNames
NormOfName == [n \in MerchantNames |-> Norm(Some(n))]
BlacklistedName == [n \in MerchantNames |-> Blacklisted(NormOfName[n])]
NormOf(o) ==
    IF ~IsNull(o) /\ Val(o) \in MerchantNames THEN NormOfName[Val(o)] ELSE Norm(o)
BlacklistedOf(o) ==
    IF ~IsNull(o) /\ Val(o) \in MerchantNames THEN BlacklistedName[Val(o)]
    ELSE Blacklisted(Norm(o))

(***************************************************************************)
(* Calendar: datetime.strptime(s, "%Y-%m-%d"), date.toordinal,             *)
(* date + timedelta, date.isoformat                                        *)
(***************************************************************************)
IsLeap(y) == y % 4 = 0 /\ (y % 100 # 0 \/ y % 400 = 0)
MonthLengths == <<31, 28, 31, 30, 31, 30, 31, 31, 30, 31, 30, 31>>
MonthStarts == <<0, 31, 59, 90, 120, 151, 181, 212, 243, 273, 304, 334>>
DaysInMonth(y, m) == IF m = 2 /\ IsLeap(y) THEN 29 ELSE MonthLengths[m]
DaysBeforeMonth(y, m) == MonthStarts[m] + (IF m > 2 /\ IsLeap(y) THEN 1 ELSE 0)
DaysBeforeYear(y) ==
    (y - 1) * 365 + ((y - 1) \div 4) - ((y - 1) \div 100) + ((y - 1) \div 400)

\* whether strptime accepts the text: a four-digit year from 1, a month, a day of it
Parses(ds) ==
    /\ ds.y \in 1..9999
    /\ ds.m \in 1..12
    /\ ds.d >= 1
    /\ ds.d <= DaysInMonth(ds.y, ds.m)
\* the ordinal of the parsed date (days since 0001-01-01, that day being 1)
Ordinal(ds) == DaysBeforeYear(ds.y) + DaysBeforeMonth(ds.y, ds.m) + ds.d

\* date.fromordinal(n).isoformat(): always zero-padded
IsoFormat(n) ==
    LET n0 == n - 1
        n400 == n0 \div 146097
        r400 == n0 % 146097
        n100 == r400 \div 36524
        r100 == r400 % 36524
        n4 == r100 \div 1461
        r4 == r100 % 1461
        n1 == r4 \div 365
        r1 == r4 % 365
        year == n400 * 400 + 1 + n100 * 100 + n4 * 4 + n1
    IN  IF n1 = 4 \/ n100 = 4
        THEN [y |-> year - 1, m |-> 12, d |-> 31, pad |-> TRUE]
        ELSE LET mth == CHOOSE k \in 1..12 :
                            /\ DaysBeforeMonth(year, k) <= r1
                            /\ r1 < DaysBeforeMonth(year, k) + DaysInMonth(year, k)
             IN  [y |-> year, m |-> mth, d |-> r1 - DaysBeforeMonth(year, mth) + 1,
                  pad |-> TRUE]

\* The text of a date string as character codes ("-" is 45, "0" is 48), which is
\* what list.sort(key=lambda x: x.date or "") compares.
Digits2(n, pad) ==
    IF n >= 10 \/ pad THEN <<48 + ((n \div 10) % 10), 48 + (n % 10)>> ELSE <<48 + n>>
DateText(ds) ==
    <<48 + ((ds.y \div 1000) % 10), 48 + ((ds.y \div 100) % 10),
      48 + ((ds.y \div 10) % 10), 48 + (ds.y % 10), 45>>
    \o Digits2(ds.m, ds.pad) \o <<45>> \o Digits2(ds.d, ds.pad)
SortKey(dateOpt) == IF IsNull(dateOpt) THEN <<>> ELSE DateText(Val(dateOpt))

\* Python's str comparison a <= b
RECURSIVE StrLeq(_, _)
StrLeq(a, b) ==
    IF a = <<>> THEN TRUE
    ELSE IF b = <<>> THEN FALSE
    ELSE IF Head(a) # Head(b) THEN Head(a) < Head(b)
    ELSE StrLeq(Tail(a), Tail(b))


(***************************************************************************)
(* detection.py: noise filter, amount consistency, grouping, cadence       *)
(***************************************************************************)
\* _is_noise without the category test
IsNoiseByName(tx) ==
    BlacklistedOf(IF Truthy(tx.merchant_name) THEN tx.merchant_name ELSE tx.raw.name)

\* _is_noise(tx)
IsNoise(tx) ==
    \/ BlacklistedOf(IF Truthy(tx.merchant_name) THEN tx.merchant_name ELSE tx.raw.name)
    \/ Upper(OrEmpty(tx.raw.pfc)) \in PFC_PRIMARY_EXCLUDE

\* list.sort() on numbers
RECURSIVE InsertNum(_, _)
InsertNum(x, s) ==
    IF s = <<>> THEN <<x>>
    ELSE IF x < Head(s) THEN <<x>> \o s
    ELSE <<Head(s)>> \o InsertNum(x, Tail(s))
RECURSIVE SortNums(_)
SortNums(s) == IF s = <<>> THEN <<>> ELSE InsertNum(s[Len(s)], SortNums(SubSeq(s, 1, Len(s) - 1)))

Abs(x) == IF x < 0 THEN -x ELSE x
RECURSIVE MaxOf(_)
MaxOf(s) ==
    IF Len(s) = 1 THEN s[1]
    ELSE LET r == MaxOf(Tail(s)) IN IF Head(s) >= r THEN Head(s) ELSE r
RECURSIVE SumOf(_)
SumOf(s) == IF s = <<>> THEN 0 ELSE Head(s) + SumOf(Tail(s))

\* a gate that asks for both tolerances
AmountsConsistentBothLimits(amts) ==
    LET numeric == SelectSeq(amts, LAMBDA a : ~IsNull(a))
        sorted == SortNums([i \in 1..Len(numeric) |-> Val(numeric[i])])
        mid == sorted[(Len(sorted) \div 2) + 1]
        spread == MaxOf([i \in 1..Len(sorted) |-> Abs(sorted[i] - mid)])
    IN  IF Len(numeric) < 3 THEN TRUE
        ELSE IF mid = 0 THEN TRUE
        ELSE spread <= 500 /\ 4 * spread <= Abs(mid)

\* _amounts_consistent(amts); amounts in cents, so 5.0 is 500 and
\* spread / |mid| <= 0.25 is 4 * spread <= |mid|
AmountsConsistent(amts) ==
    LET numeric == SelectSeq(amts, LAMBDA a : ~IsNull(a))
        sorted == SortNums([i \in 1..Len(numeric) |-> Val(numeric[i])])
        mid == sorted[(Len(sorted) \div 2) + 1]
        spread == MaxOf([i \in 1..Len(sorted) |-> Abs(sorted[i] - mid)])
    IN  IF Len(numeric) < 3 THEN TRUE
        ELSE IF mid = 0 THEN TRUE
        ELSE spread <= 500 \/ 4 * spread <= Abs(mid)

\* a filter whose window ends a day early
KeptStrictlyInside(t, since) ==
    /\ ~IsNull(t.date)
    /\ Parses(Val(t.date))
    /\ Ordinal(Val(t.date)) > since
    /\ ~IsNoise(t)

\* a filter without the test of the window
KeptAnyDate(t, since) ==
    /\ ~IsNull(t.date)
    /\ Parses(Val(t.date))
    /\ ~IsNoise(t)

\* the window and noise filter of the grouping loop (lines 59-67)
Kept(t, since) ==
    /\ ~IsNull(t.date)
    /\ Parses(Val(t.date))
    /\ Ordinal(Val(t.date)) >= since
    /\ ~IsNoise(t)

\* the keys of the groups dict, in insertion order (keys: the key of each
\* kept record, in load order)
RECURSIVE GroupKeys(_, _)
GroupKeys(keys, seen) ==
    IF keys = <<>> THEN <<>>
    ELSE IF Head(keys) \in seen THEN GroupKeys(Tail(keys), seen)
    ELSE <<Head(keys)>> \o GroupKeys(Tail(keys), seen \cup {Head(keys)})

\* items.sort(key=lambda x: x.date or ""): stable, by the text of the date
RECURSIVE InsertByDate(_, _)
InsertByDate(x, s) ==
    IF s = <<>> THEN <<x>>
    ELSE IF StrLeq(SortKey(Head(s).date), SortKey(x.date))
         THEN <<Head(s)>> \o InsertByDate(x, Tail(s))
         ELSE <<x>> \o s
RECURSIVE SortByDate(_)
SortByDate(s) ==
    IF s = <<>> THEN <<>>
    ELSE InsertByDate(s[Len(s)], SortByDate(SubSeq(s, 1, Len(s) - 1)))

\* merchant_display (line 75)
RECURSIVE FirstTruthyName(_, _)
FirstTruthyName(items, default) ==
    IF items = <<>> THEN default
    ELSE IF Truthy(Head(items).merchant_name) THEN Val(Head(items).merchant_name)
    ELSE FirstTruthyName(Tail(items), default)

\* a band that leaves out its two ends
IsMonthlyStrict(diffs) ==
    /\ Len(diffs) > 0
    /\ 27 * Len(diffs) < SumOf(diffs)
    /\ SumOf(diffs) < 33 * Len(diffs)

\* a band that every gap has to be in
IsMonthlyEveryGap(diffs) ==
    /\ Len(diffs) > 0
    /\ \A i \in 1..Len(diffs) : 27 <= diffs[i] /\ diffs[i] <= 33

\* monthly ~ 30 +- 3 on the mean of the consecutive gaps (lines 92-98)
IsMonthly(diffs) ==
    /\ Len(diffs) > 0
    /\ 27 * Len(diffs) <= SumOf(diffs)
    /\ SumOf(diffs) <= 33 * Len(diffs)

\* a loop that goes on with two records
EnoughRecordsTwo(n) == n >= 2

\* "if len(items) < 3: continue" and "if len(dates) < 3: continue" (lines 71, 86)
EnoughRecords(n) == n >= 3

\* One entry of the groups dict as the loop body sees it (lines 70-98, 115-117):
\* unsorted are its records in load order
GroupEntry(key, unsorted) ==
    Only({
        LET dates == [i \in 1..Len(items) |-> Ordinal(Val(items[i].date))]
            diffs == [i \in 1..(Len(items) - 1) |->
                         Ordinal(Val(items[i + 1].date)) - Ordinal(Val(items[i].date))]
        IN  [ key |-> key,
              display |-> FirstTruthyName(unsorted, key),
              items |-> items,
              size |-> Len(items),
              qualifies |->
                  /\ EnoughRecords(Len(items))
                  /\ EnoughRecords(Len(dates))
                  /\ AmountsConsistent([i \in 1..Len(items) |-> items[i].amount])
                  /\ IsMonthly(diffs),
              next_expected |->
                  IF Len(items) = 0 THEN Null ELSE Some(IsoFormat(MaxOf(dates) + 30)) ]
        : items \in {SortByDate(unsorted)} })

\* the records of kept filed under key (line 68); keyOf[i] is the key of kept[i]
GroupOf(key, kept, keyOf) ==
    Only({ GroupEntry(key, [j \in 1..Len(idx) |-> kept[idx[j]]])
           : idx \in {SelectSeq([i \in 1..Len(kept) |-> i], LAMBDA i : keyOf[i] = key)} })

\* the groups dict of a run that loads txns on day today, in iteration order
Groups(txns, today) ==
    Only({ Only({ Only({ [i \in 1..Len(keys) |-> GroupOf(keys[i], kept, keyOf)]
                         : keys \in {GroupKeys(keyOf, {})} })
                  : keyOf \in {[i \in 1..Len(kept) |-> NormOf(kept[i].merchant_name)]} })
           : kept \in {SelectSeq(txns, LAMBDA t :
                          ~IsNull(t.merchant_name) /\ Kept(t, today - WINDOW_DAYS))} })

\* the groups that reach the merge (the body of "if 27 <= avg <= 33")
QualifyingGroups(txns, today) ==
    SelectSeq(Groups(txns, today), LAMBDA g : g.qualifies)

(***************************************************************************)
(* The store and a session's unit of work                                  *)
(*                                                                         *)
(* A store is [vendors, transactions, subscriptions]: the committed rows.  *)
(* A session (sessionmaker(autoflush=False, autocommit=False)) holds what  *)
(* its run has written and not yet committed:                              *)
(*   newVendors  rows added and flushed (db.add; db.flush), ids assigned   *)
(*   links       pending Transaction.vendor_id updates, <<txn id, vid>>    *)
(*   newSubs     Subscription rows added and not yet flushed               *)
(*   subUpd      pending Subscription updates; a column is written only    *)
(*               when its value was changed on the loaded object           *)
(***************************************************************************)
EmptySession == [newVendors |-> <<>>, links |-> {}, newSubs |-> <<>>, subUpd |-> <<>>]

SeqToSet(s) == {s[i] : i \in 1..Len(s)}
\* the next integer primary key of a table
NextId(rows) == IF rows = <<>> THEN 1 ELSE MaxOf([i \in 1..Len(rows) |-> rows[i].id]) + 1

\* db.query(Vendor).filter(func.lower(Vendor.name) == merchant_display.lower()):
\* the rows the query returns, the session's own flushed rows included
VendorMatches(db, sess, display) ==
    SelectSeq(db.vendors \o sess.newVendors, LAMBDA v : Lower(v.name) = Lower(display))

\* .one_or_none() on the vendor query: the id found, 0 for None
VendorLookup(db, sess, display) ==
    LET found == VendorMatches(db, sess, display)
    IN  IF Len(found) > 1 THEN [error |-> "MultipleResultsFound", vid |-> 0]
        ELSE IF Len(found) = 1 THEN [error |-> "none", vid |-> found[1].id]
        ELSE [error |-> "none", vid |-> 0]

\* vendor = Vendor(name=merchant_display); db.add(vendor); db.flush()
\* The INSERT fails on the unique index of vendors.name (models.py line 10).
VendorInsert(db, sess, display) ==
    LET visible == db.vendors \o sess.newVendors
        vid == NextId(visible)
    IN  IF \E v \in SeqToSet(visible) : v.name = display
        THEN [error |-> "IntegrityError", vid |-> 0, sess |-> sess]
        ELSE [error |-> "none", vid |-> vid,
              sess |-> [sess EXCEPT !.newVendors = @ \o <<[id |-> vid, name |-> display]>>]]

\* for it in items: if it.vendor_id != vendor.id: it.vendor_id = vendor.id
\* (the items are the Transaction objects the run loaded at line 52)
LinkItems(sess, g, vid) ==
    Only({ [sess EXCEPT !.links =
               {l \in @ : l[1] \notin stale} \cup {<<id, vid>> : id \in stale}]
           : stale \in {{g.items[i].id : i \in {j \in 1..Len(g.items) :
                                                  g.items[j].vendor_id # Some(vid)}}} })

Changed(new, old) == IF new = old THEN Null ELSE Some(new)
Max(a, b) == IF a >= b THEN a ELSE b

\* a new row that leaves confidence to its column default
NewSubscriptionDefaultConfidence(vid, next_expected, now) ==
    [ vendor_id |-> Some(vid), status |-> "inferred", interval |-> Some("monthly"),
      confidence |-> 0, next_expected |-> next_expected, last_seen |-> now ]

\* The row a run adds for a vendor without subscription (lines 126-133, 139)
NewSubscription(vid, next_expected, now) ==
    [ vendor_id |-> Some(vid), status |-> "inferred", interval |-> Some("monthly"),
      confidence |-> 70, next_expected |-> next_expected, last_seen |-> now ]

\* a refresh that assigns 0.7 to confidence
RefreshSettingConfidence(sub, next_expected, now) ==
    [ id |-> sub.id,
      interval |-> Changed(Some("monthly"), sub.interval),
      confidence |-> Changed(70, sub.confidence),
      next_expected |-> Changed(next_expected, sub.next_expected),
      last_seen |-> Changed(now, sub.last_seen) ]

\* a refresh that raises confidence by 0.1 up to 1.0
RefreshRaisingConfidence(sub, next_expected, now) ==
    [ id |-> sub.id,
      interval |-> Changed(Some("monthly"), sub.interval),
      confidence |-> Changed(IF sub.confidence + 10 > 100 THEN 100 ELSE Max(sub.confidence + 10, 70),
                             sub.confidence),
      next_expected |-> Changed(next_expected, sub.next_expected),
      last_seen |-> Changed(now, sub.last_seen) ]

\* a refresh that keeps a next_expected that is set
RefreshKeepingNextExpected(sub, next_expected, now) ==
    [ id |-> sub.id,
      interval |-> Changed(Some("monthly"), sub.interval),
      confidence |-> Changed(Max(sub.confidence, 70), sub.confidence),
      next_expected |-> IF IsNull(sub.next_expected)
                        THEN Changed(next_expected, sub.next_expected) ELSE Null,
      last_seen |-> Changed(now, sub.last_seen) ]

\* The refresh of a loaded row (lines 135-139): status is not assigned
RefreshSubscription(sub, next_expected, now) ==
    [ id |-> sub.id,
      interval |-> Changed(Some("monthly"), sub.interval),
      confidence |-> Changed(Max(sub.confidence, 70), sub.confidence),
      next_expected |-> Changed(next_expected, sub.next_expected),
      last_seen |-> Changed(now, sub.last_seen) ]

\* an upsert that adds a row without looking for one
SubUpsertAdding(db, sess, vid, next_expected, now) ==
    [error |-> "none",
     sess |-> [sess EXCEPT !.newSubs = @ \o <<NewSubscription(vid, next_expected, now)>>]]

\* an upsert that looks for a subscription of any vendor
SubUpsertAnyVendor(db, sess, vid, next_expected, now) ==
    LET found == db.subscriptions
    IN  IF Len(found) > 1 THEN [error |-> "MultipleResultsFound", sess |-> sess]
        ELSE IF Len(found) = 0
        THEN [error |-> "none",
              sess |-> [sess EXCEPT !.newSubs = @ \o <<NewSubscription(vid, next_expected, now)>>]]
        ELSE [error |-> "none",
              sess |-> [sess EXCEPT !.subUpd = @ \o <<RefreshSubscription(found[1], next_expected, now)>>]]

\* upsert subscription (lines 119-139)
SubUpsert(db, sess, vid, next_expected, now) ==
    LET found == SelectSeq(db.subscriptions, LAMBDA r : r.vendor_id = Some(vid))
    IN  IF Len(found) > 1 THEN [error |-> "MultipleResultsFound", sess |-> sess]
        ELSE IF Len(found) = 0
        THEN [error |-> "none",
              sess |-> [sess EXCEPT !.newSubs = @ \o <<NewSubscription(vid, next_expected, now)>>]]
        ELSE [error |-> "none",
              sess |-> [sess EXCEPT !.subUpd = @ \o <<RefreshSubscription(found[1], next_expected, now)>>]]

\* an update that writes the inferred status with the other columns
ApplyUpdRevertingStatus(r, u) ==
    [r EXCEPT !.status = "inferred",
              !.interval = IF IsNull(u.interval) THEN @ ELSE Val(u.interval),
              !.confidence = IF IsNull(u.confidence) THEN @ ELSE Val(u.confidence),
              !.next_expected = IF IsNull(u.next_expected) THEN @ ELSE Val(u.next_expected),
              !.last_seen = IF IsNull(u.last_seen) THEN @ ELSE Val(u.last_seen)]

\* one pending update applied to a committed row
ApplyUpd(r, u) ==
    [r EXCEPT !.interval = IF IsNull(u.interval) THEN @ ELSE Val(u.interval),
              !.confidence = IF IsNull(u.confidence) THEN @ ELSE Val(u.confidence),
              !.next_expected = IF IsNull(u.next_expected) THEN @ ELSE Val(u.next_expected),
              !.last_seen = IF IsNull(u.last_seen) THEN @ ELSE Val(u.last_seen)]
RECURSIVE ApplyUpds(_, _)
ApplyUpds(r, upds) ==
    IF upds = <<>> THEN r
    ELSE ApplyUpds(IF Head(upds).id = r.id THEN ApplyUpd(r, Head(upds)) ELSE r, Tail(upds))

\* db.commit(): flush what is pending and make the unit of work durable.
\* first_seen takes its column default, utcnow at the INSERT (models.py line 48).
Commit(db, sess, now) ==
    LET base == NextId(db.subscriptions)
    IN  [ vendors |-> db.vendors \o sess.newVendors,
          transactions |->
              [i \in 1..Len(db.transactions) |->
                  LET t == db.transactions[i]
                  IN  IF \E l \in sess.links : l[1] = t.id
                      THEN [t EXCEPT !.vendor_id =
                                Some((CHOOSE l \in sess.links : l[1] = t.id)[2])]
                      ELSE t],
          subscriptions |->
              [i \in 1..Len(db.subscriptions) |-> ApplyUpds(db.subscriptions[i], sess.subUpd)]
              \o [i \in 1..Len(sess.newSubs) |->
                    [ id |-> base + i - 1,
                      vendor_id |-> sess.newSubs[i].vendor_id,
                      status |-> sess.newSubs[i].status,
                      interval |-> sess.newSubs[i].interval,
                      confidence |-> sess.newSubs[i].confidence,
                      first_seen |-> now,
                      last_seen |-> sess.newSubs[i].last_seen,
                      next_expected |-> sess.newSubs[i].next_expected ]] ]

\* a close that writes what is pending
CloseSessionFlushing(db, sess, now) == Commit(db, sess, now)

\* s.close() without a commit (the finally of every handler): the open
\* transaction is rolled back and the store keeps its committed rows
CloseSession(db, sess, now) == db

\* the day the system is started on, and the day an instant falls on
\* (datetime.utcnow().date(), date.today())
TicksPerDay == 2
Day0 == Ordinal([y |-> 2025, m |-> 7, d |-> 31, pad |-> TRUE])
DayOf(now) == Day0 + (now \div TicksPerDay)

(***************************************************************************)
(* detect_basic_subscriptions(db), run alone on a store                    *)
(*                                                                         *)
(* fail names where the persistence layer becomes unavailable during the   *)
(* run, if it does: [group, stage], stage one of the statements that talk  *)
(* to the database; NoFail when it stays up.                               *)
(***************************************************************************)
NoFail == [group |-> 0, stage |-> "none"]

\* the body of "if 27 <= avg <= 33" for one group, from the vendor resolved
\* (lines 110-139)
MergeResolved(db, sess, g, now, failStage, vid) ==
    Only({ IF failStage = "sub_lookup"
           THEN [error |-> "StorageError", sess |-> linked]
           ELSE SubUpsert(db, linked, vid, g.next_expected, now)
           : linked \in {LinkItems(sess, g, vid)} })

\* the body of "if 27 <= avg <= 33" for one group (lines 99-139)
MergeGroup(db, sess, g, now, failStage) ==
    IF failStage = "vendor_lookup" THEN [error |-> "StorageError", sess |-> sess]
    ELSE Only({
        IF look.error # "none" THEN [error |-> look.error, sess |-> sess]
        ELSE IF look.vid # 0
        THEN MergeResolved(db, sess, g, now, failStage, look.vid)
        ELSE IF failStage = "vendor_insert"
        THEN [error |-> "StorageError", sess |-> sess]
        ELSE Only({ IF ins.error # "none" THEN [error |-> ins.error, sess |-> sess]
                    ELSE MergeResolved(db, ins.sess, g, now, failStage, ins.vid)
                    : ins \in {VendorInsert(db, sess, g.display)} })
        : look \in {VendorLookup(db, sess, g.display)} })

\* the loop over the groups (line 70), from group i on
RECURSIVE MergeFrom(_, _, _, _, _, _)
MergeFrom(db, sess, groups, now, i, fail) ==
    IF i > Len(groups) THEN [error |-> "none", sess |-> sess]
    ELSE Only({ IF r.error # "none" THEN r
                ELSE MergeFrom(db, r.sess, groups, now, i + 1, fail)
                : r \in {MergeGroup(db, sess, groups[i], now,
                                    IF fail.group = i THEN fail.stage ELSE "none")} })

\* detect_basic_subscriptions: what the run leaves in its session, whether it
\* reached and passed db.commit(), and the exception it raised, if any.
\* groups are QualifyingGroups of the store's transactions on the day of now.
RunDetection(db, groups, now, fail) ==
    Only({ IF loaded = <<>>
           THEN [error |-> "none", sess |-> EmptySession, committed |-> FALSE]
           ELSE Only({ IF r.error # "none"
                       THEN [error |-> r.error, sess |-> r.sess, committed |-> FALSE]
                       ELSE IF fail.stage = "commit"
                       THEN [error |-> "StorageError", sess |-> r.sess, committed |-> FALSE]
                       ELSE [error |-> "none", sess |-> r.sess, committed |-> TRUE]
                       : r \in {MergeFrom(db, EmptySession, groups, now, 1, fail)} })
           : loaded \in {SelectSeq(db.transactions, LAMBDA t : ~IsNull(t.merchant_name))} })

\* POST /api/detect: the run, then s.close() in the finally clause
DetectOutcome(db, groups, now, fail) ==
    Only({ [ error |-> r.error,
             merged |-> Len(r.sess.newSubs) + Len(r.sess.subUpd),
             store |-> IF r.committed THEN Commit(db, r.sess, now)
                       ELSE CloseSession(db, r.sess, now) ]
           : r \in {RunDetection(db, groups, now, fail)} })

(***************************************************************************)
(* Bounds and input pools                                                  *)
(***************************************************************************)
MaxSeeds == 1       \* calls of POST /api/seed between two resets
MaxInvoices == 1    \* uploads to POST /api/textract between two resets
MaxClock == 2       \* instants the clock advances by
MaxPatchId == 1     \* PATCH /api/subscriptions/<id> is tried for ids 1..MaxPatchId

DaysAgo(k) == Some(IsoFormat(Day0 - k))

USD == <<"U","S","D">>

\* One transaction of a Plaid /transactions/get response
PlaidTxn(tid, merchant, amount, date, pfc) ==
    [ transaction_id |-> Some(tid), merchant_name |-> Some(merchant), name |-> Some(merchant),
      amount |-> Some(amount), iso_currency_code |-> Some(USD), date |-> date, pfc |-> pfc ]

\* The response the Plaid client is taken to give: Hulu monthly with its first
\* charge on the edge of the window, Disney with two charges and a transfer,
\* Gas Co monthly under a blacklisted name, Acme monthly under an excluded
\* category in three spellings
Batch ==
    << PlaidTxn("h1", HULU, 799, DaysAgo(150), Null),
       PlaidTxn("h2", HULU, 799, DaysAgo(120), Null),
       PlaidTxn("h3", HULU, 799, DaysAgo(90), Null),
       PlaidTxn("d1", DISNEY, 1099, DaysAgo(40), Null),
       PlaidTxn("d2", DISNEY, 1099, DaysAgo(10), Null),
       PlaidTxn("d3", DISNEY, 1099, DaysAgo(70), Some(<<"T","R","A","N","S","F","E","R","_","I","N">>)),
       PlaidTxn("g1", GAS_CO, 4000, DaysAgo(60), Null),
       PlaidTxn("g2", GAS_CO, 4000, DaysAgo(30), Null),
       PlaidTxn("g3", GAS_CO, 4000, DaysAgo(0), Null),
       PlaidTxn("a1", ACME, 250000, DaysAgo(61), Some(<<"i","n","c","o","m","e">>)),
       PlaidTxn("a2", ACME, 250000, DaysAgo(31), Some(<<"I","N","C","O","M","E">>)),
       PlaidTxn("a3", ACME, 250000, DaysAgo(1), Some(<<"I","n","c","o","m","e">>)) >>
PlaidBatches == {Batch}

\* The vendor names the document analysis is taken to return: the mock's
\* (api_routes.py line 337), the same vendor as a scan spells it, and a
\* merchant of the Plaid response
TextractNames == {ADOBE, ADOBE_UPPER, HULU}

\* The bodies of PATCH /api/subscriptions/<id> that are tried
PatchBodies ==
    { [status |-> Some("active"), interval |-> Some("yearly"),
       next_expected |-> Some([y |-> 2026, m |-> 1, d |-> 1, pad |-> TRUE])],
      [status |-> Some("cancelled"), interval |-> Null, next_expected |-> Null] }

Procs == {1, 2}
\* a caller of POST /api/detect that has no run in progress
IdleProc ==
    [ pc |-> "idle", groups |-> <<>>, i |-> 0, vid |-> 0, sess |-> EmptySession,
      error |-> "none" ]

(***************************************************************************)
(* The handlers of api_routes.py, each run alone                           *)
(***************************************************************************)
Store == [vendors |-> vendors, transactions |-> transactions, subscriptions |-> subscriptions]

\* what is kept of the last answer given: the operation, the error it ended
\* with, a count (rows inserted by seed and sync; subscriptions listed by a
\* detection that succeeded, groups merged by one that failed), and for a
\* detection the instant it ran at
Returned(op, err, n) == [op |-> op, err |-> err, n |-> n, at |-> 0]
DetectReturned(err, n, at) == [op |-> "detect", err |-> err, n |-> n, at |-> at]

\* the demo list of _seed_demo_transactions: name, days before today, amount
SeedDemo ==
    << [name |-> NETFLIX, ago |-> <<0, 30, 60>>, amt |-> 1599],
       [name |-> ADOBE, ago |-> <<5, 35, 65>>, amt |-> 2999],
       [name |-> SPOTIFY, ago |-> <<2, 32, 62>>, amt |-> 999],
       [name |-> STARBUCKS, ago |-> <<3, 11, 20>>, amt |-> 550] >>

\* the rows _seed_demo_transactions adds, in order, the first taking id base
SeedRows(today, base) ==
    [k \in 1..(3 * Len(SeedDemo)) |->
        LET e == SeedDemo[((k - 1) \div 3) + 1]
            j == ((k - 1) % 3) + 1
        IN  [ id |-> base + k - 1,
              vendor_id |-> Null,
              plaid_txn_id |-> Null,
              merchant_name |-> Some(e.name),
              amount |-> Some(e.amt),
              iso_currency_code |-> Some(USD),
              date |-> Some(IsoFormat(today - e.ago[j])),
              raw |-> [seed |-> TRUE, name |-> Null, pfc |-> Null] ]]

\* POST /api/seed and POST /api/demo/seed
Seed ==
    /\ Len(SelectSeq(transactions, LAMBDA t : t.raw.seed)) < 3 * Len(SeedDemo) * MaxSeeds
    /\ transactions' = transactions \o SeedRows(DayOf(clock), NextId(transactions))
    /\ lastOp' = Returned("seed", "none", 3 * Len(SeedDemo))
    /\ UNCHANGED <<vendors, subscriptions, invoices, clock, proc, wlock>>

\* the transactions of a Plaid response that the sync loop adds: those whose
\* transaction_id the store does not hold (the query does not see rows the
\* loop itself has added, the session not flushing before a query)
PlaidNew(txns, batch) ==
    SelectSeq(batch, LAMBDA t :
        ~\E r \in SeqToSet(txns) : r.plaid_txn_id = t.transaction_id)

PlaidRow(t, id) ==
    [ id |-> id,
      vendor_id |-> Null,
      plaid_txn_id |-> t.transaction_id,
      merchant_name |-> IF Truthy(t.merchant_name) THEN t.merchant_name ELSE t.name,
      amount |-> t.amount,
      iso_currency_code |-> t.iso_currency_code,
      date |-> t.date,
      raw |-> [seed |-> FALSE, name |-> t.name, pfc |-> t.pfc] ]

\* GET /api/plaid/transactions, the Plaid client answering with batch
PlaidSync(batch) ==
    LET new == PlaidNew(transactions, batch)
        base == NextId(transactions)
    IN  /\ transactions' = transactions \o [i \in 1..Len(new) |-> PlaidRow(new[i], base + i - 1)]
        /\ lastOp' = Returned("plaid", "none", Len(new))
        /\ UNCHANGED <<vendors, subscriptions, invoices, clock, proc, wlock>>

\* POST /api/textract, the analysis naming the vendor name (lines 374-391)
Textract(name) ==
    LET found == SelectSeq(vendors, LAMBDA v : v.name = name)
        vid == IF found = <<>> THEN NextId(vendors) ELSE found[1].id
    IN  /\ Len(invoices) < MaxInvoices
        /\ vendors' = IF found = <<>> THEN vendors \o <<[id |-> vid, name |-> name]>>
                      ELSE vendors
        /\ invoices' = invoices \o <<[id |-> NextId(invoices), vendor_id |-> Some(vid)]>>
        /\ lastOp' = Returned("textract", "none", 0)
        /\ UNCHANGED <<transactions, subscriptions, clock, proc, wlock>>

\* the assignments of SubscriptionUpdateResource.patch (lines 489-498)
PatchRow(sub, body) ==
    [sub EXCEPT
        !.status = IF ~IsNull(body.status)
                      /\ Val(body.status) \in {"active", "cancelled", "inferred"}
                   THEN Val(body.status) ELSE @,
        !.interval = IF ~IsNull(body.interval)
                        /\ Val(body.interval) \in {"monthly", "yearly", "unknown"}
                     THEN body.interval ELSE @,
        !.next_expected = IF ~IsNull(body.next_expected) THEN body.next_expected ELSE @]

\* PATCH /api/subscriptions/<sub_id>; an id without row is answered 404 and
\* changes nothing
Patch(sub_id, body) ==
    /\ \E i \in 1..Len(subscriptions) : subscriptions[i].id = sub_id
    /\ subscriptions' =
          [i \in 1..Len(subscriptions) |->
              IF subscriptions[i].id = sub_id
              THEN PatchRow(subscriptions[i], body) ELSE subscriptions[i]]
    /\ lastOp' = Returned("patch", "none", 0)
    /\ UNCHANGED <<vendors, transactions, invoices, clock, proc, wlock>>

\* the places a run over groups is taken to lose the database at: a statement
\* of the first or of the last group, or the commit
FailPoints(groups) ==
    {NoFail}
    \cup {[group |-> g, stage |-> st] :
             g \in {1, Len(groups)} \ {0},
             st \in {"vendor_lookup", "vendor_insert", "sub_lookup"}}
    \cup {[group |-> Len(groups) + 1, stage |-> "commit"]}

\* POST /api/detect
Detect ==
    \E groups \in {QualifyingGroups(transactions, DayOf(clock))} :
      \E fail \in FailPoints(groups) :
        \E out \in {DetectOutcome(Store, groups, clock, fail)} :
          /\ vendors' = out.store.vendors
          /\ transactions' = out.store.transactions
          /\ subscriptions' = out.store.subscriptions
          /\ lastOp' = DetectReturned(out.error,
                                      IF out.error = "none"
                                      THEN Len(out.store.subscriptions) ELSE out.merged,
                                      clock)
          /\ UNCHANGED <<invoices, clock, proc, wlock>>

\* a reset that leaves the transactions table
ResetKeepingTransactions ==
    /\ vendors' = <<>>
    /\ subscriptions' = <<>>
    /\ invoices' = <<>>
    /\ lastOp' = Returned("reset", "none", 0)
    /\ UNCHANGED <<transactions, clock, proc, wlock>>

\* POST /api/demo/reset: drop_all, create_all
Reset ==
    /\ vendors' = <<>>
    /\ transactions' = <<>>
    /\ subscriptions' = <<>>
    /\ invoices' = <<>>
    /\ lastOp' = Returned("reset", "none", 0)
    /\ UNCHANGED <<clock, proc, wlock>>

\* time passes
Tick ==
    /\ clock < MaxClock
    /\ clock' = clock + 1
    /\ UNCHANGED <<vendors, transactions, subscriptions, invoices, lastOp, proc, wlock>>

Init ==
    /\ vendors = <<>>
    /\ transactions = <<>>
    /\ subscriptions = <<>>
    /\ invoices = <<>>
    /\ clock = 0
    /\ lastOp = Returned("start", "none", 0)
    /\ proc = [p \in Procs |-> IdleProc]
    /\ wlock = 0

Next ==
    \/ Seed
    \/ \E batch \in PlaidBatches : PlaidSync(batch)
    \/ \E name \in TextractNames : Textract(name)
    \/ \E sub_id \in 1..MaxPatchId, body \in PatchBodies : Patch(sub_id, body)
    \/ Detect
    \/ Reset
    \/ Tick

Spec == Init /\ [][Next]_vars

(***************************************************************************)
(* Two callers of POST /api/detect at once, each run in its own session.   *)
(* vendors, transactions and subscriptions hold the committed rows; a run  *)
(* reads them together with what its own session has flushed, and what it  *)
(* has written stays in proc[p].sess until its commit.  wlock is the run    *)
(* that holds the write lock of the database file (0: none): a run takes   *)
(* it with its first INSERT and gives it back at commit or rollback, and   *)
(* a run that needs it while the other holds it waits.                     *)
(* The store is filled by seed, sync and upload while no run is going on.  *)
(***************************************************************************)
NoRun == \A p \in Procs : proc[p].pc = "idle"

ConcSeed == NoRun /\ Seed
ConcPlaidSync(batch) == NoRun /\ PlaidSync(batch)
ConcTextract(name) == NoRun /\ Textract(name)

\* the run of p ends: its handler answers and closes the session
Ended(p, err) ==
    /\ proc' = [proc EXCEPT ![p] = [@ EXCEPT !.pc = "done", !.error = err]]
    /\ wlock' = IF wlock = p THEN 0 ELSE wlock
    /\ lastOp' = DetectReturned(err, 0, clock)

\* an uncaught exception leaves detect_basic_subscriptions; s.close()
Raised(p, err) ==
    /\ \E db \in {CloseSession(Store, proc[p].sess, clock)} :
         /\ vendors' = db.vendors
         /\ transactions' = db.transactions
         /\ subscriptions' = db.subscriptions
    /\ Ended(p, err)
    /\ UNCHANGED <<invoices, clock>>

\* lines 50-98: load, group, classify
Begin(p) ==
    /\ proc[p].pc = "idle"
    /\ \E groups \in {QualifyingGroups(transactions, DayOf(clock))} :
         IF SelectSeq(transactions, LAMBDA t : ~IsNull(t.merchant_name)) = <<>>
         THEN /\ Ended(p, "none")
              /\ UNCHANGED <<vendors, transactions, subscriptions, invoices, clock>>
         ELSE /\ proc' = [proc EXCEPT ![p] =
                            [@ EXCEPT !.pc = IF groups = <<>> THEN "commit" ELSE "vendor_lookup",
                                      !.groups = groups, !.i = 1]]
              /\ UNCHANGED <<vendors, transactions, subscriptions, invoices, clock,
                             lastOp, wlock>>

\* lines 100-104
LookupVendor(p) ==
    /\ proc[p].pc = "vendor_lookup"
    /\ \E look \in {VendorLookup(Store, proc[p].sess, proc[p].groups[proc[p].i].display)} :
         IF look.error # "none" THEN Raised(p, look.error)
         ELSE /\ proc' = [proc EXCEPT ![p] =
                            [@ EXCEPT !.pc = IF look.vid = 0 THEN "vendor_insert"
                                             ELSE "sub_upsert",
                                      !.vid = look.vid]]
              /\ UNCHANGED <<vendors, transactions, subscriptions, invoices, clock,
                             lastOp, wlock>>

\* lines 105-108
InsertVendor(p) ==
    /\ proc[p].pc = "vendor_insert"
    /\ wlock \in {0, p}
    /\ \E ins \in {VendorInsert(Store, proc[p].sess, proc[p].groups[proc[p].i].display)} :
         IF ins.error # "none" THEN Raised(p, ins.error)
         ELSE /\ proc' = [proc EXCEPT ![p] =
                            [@ EXCEPT !.pc = "sub_upsert", !.vid = ins.vid, !.sess = ins.sess]]
              /\ wlock' = p
              /\ UNCHANGED <<vendors, transactions, subscriptions, invoices, clock, lastOp>>

\* lines 110-139
UpsertSubscription(p) ==
    /\ proc[p].pc = "sub_upsert"
    /\ \E g \in {proc[p].groups[proc[p].i]} :
         \E r \in {SubUpsert(Store, LinkItems(proc[p].sess, g, proc[p].vid), proc[p].vid,
                             g.next_expected, clock)} :
           IF r.error # "none" THEN Raised(p, r.error)
           ELSE /\ proc' = [proc EXCEPT ![p] =
                              [@ EXCEPT !.pc = IF proc[p].i = Len(proc[p].groups)
                                               THEN "commit" ELSE "vendor_lookup",
                                        !.i = @ + 1, !.vid = 0, !.sess = r.sess]]
                /\ UNCHANGED <<vendors, transactions, subscriptions, invoices, clock,
                               lastOp, wlock>>

\* line 141
CommitRun(p) ==
    /\ proc[p].pc = "commit"
    /\ wlock \in {0, p}
    /\ \E db \in {Commit(Store, proc[p].sess, clock)} :
         /\ vendors' = db.vendors
         /\ transactions' = db.transactions
         /\ subscriptions' = db.subscriptions
    /\ Ended(p, "none")
    /\ UNCHANGED <<invoices, clock>>

ConcNext ==
    \/ ConcSeed
    \/ \E batch \in PlaidBatches : ConcPlaidSync(batch)
    \/ \E name \in TextractNames : ConcTextract(name)
    \/ \E p \in Procs : Begin(p)
    \/ \E p \in Procs : LookupVendor(p)
    \/ \E p \in Procs : InsertVendor(p)
    \/ \E p \in Procs : UpsertSubscription(p)
    \/ \E p \in Procs : CommitRun(p)

ConcSpec == Init /\ [][ConcNext]_vars

(***************************************************************************)
(* A database file kept from an earlier deployment: create_all (app.py     *)
(* line 35) keeps the rows it finds.  It holds the vendor Netflix and its  *)
(* subscription, whose confidence (a free Float column, models.py line 47) *)
(* is one of StoredConfidences.                                            *)
(***************************************************************************)
StoredConfidences == {90}

StoredInit ==
    /\ vendors = <<[id |-> 1, name |-> NETFLIX]>>
    /\ transactions = <<>>
    /\ \E c \in StoredConfidences :
         subscriptions =
            << [ id |-> 1, vendor_id |-> Some(1), status |-> "inferred",
                 interval |-> Some("unknown"), confidence |-> c, first_seen |-> 0,
                 last_seen |-> 0, next_expected |-> Null ] >>
    /\ invoices = <<>>
    /\ clock = 0
    /\ lastOp = Returned("start", "none", 0)
    /\ proc = [p \in Procs |-> IdleProc]
    /\ wlock = 0

StoredSpec == StoredInit /\ [][Next]_vars

(***************************************************************************)
(* Callers of GET /api/plaid/transactions at once, each in its own         *)
(* session.  A sync reads the response, then for each transaction of it    *)
(* queries the store for the transaction_id and adds a row if there is     *)
(* none; the rows are written at the commit (no flush before a query), so  *)
(* a query sees the committed rows only.                                   *)
(***************************************************************************)
\* The responses the Plaid client is taken to give to successive calls: two
\* pages that share a transaction, and one that lists a transaction twice
SyncBatches ==
    { << PlaidTxn("x1", NETFLIX, 1599, DaysAgo(60), Null),
         PlaidTxn("x2", NETFLIX, 1599, DaysAgo(30), Null) >>,
      << PlaidTxn("x2", NETFLIX, 1599, DaysAgo(30), Null),
         PlaidTxn("x3", NETFLIX, 1599, DaysAgo(0), Null) >>,
      << PlaidTxn("x4", SPOTIFY, 999, DaysAgo(2), Null),
         PlaidTxn("x4", SPOTIFY, 999, DaysAgo(2), Null) >> }

\* lines 239-243: the response is read and the session opened
SyncBegin(p, batch) ==
    /\ proc[p].pc = "idle"
    /\ proc' = [proc EXCEPT ![p] = [pc |-> "sync", txns |-> batch, i |-> 1, added |-> <<>>]]
    /\ UNCHANGED <<vendors, transactions, subscriptions, invoices, clock, lastOp, wlock>>

\* one turn of the loop (lines 244-265): query by transaction_id, add if none
SyncTurn(p) ==
    /\ proc[p].pc = "sync"
    /\ proc[p].i <= Len(proc[p].txns)
    /\ \E t \in {proc[p].txns[proc[p].i]} :
         proc' = [proc EXCEPT ![p] =
                    [@ EXCEPT !.i = @ + 1,
                              !.added = IF PlaidNew(transactions, <<t>>) = <<>>
                                        THEN @ ELSE Append(@, t)]]
    /\ UNCHANGED <<vendors, transactions, subscriptions, invoices, clock, lastOp, wlock>>

\* line 266: s.commit() writes the rows added, then "saved" is answered
SyncCommit(p) ==
    /\ proc[p].pc = "sync"
    /\ proc[p].i > Len(proc[p].txns)
    /\ wlock \in {0, p}
    /\ \E base \in {NextId(transactions)} :
         transactions' = transactions \o
             [k \in 1..Len(proc[p].added) |-> PlaidRow(proc[p].added[k], base + k - 1)]
    /\ lastOp' = Returned("plaid", "none", Len(proc[p].added))
    /\ proc' = [proc EXCEPT ![p] = IdleProc]
    /\ UNCHANGED <<vendors, subscriptions, invoices, clock, wlock>>

SyncNext ==
    \/ \E p \in Procs, batch \in SyncBatches : SyncBegin(p, batch)
    \/ \E p \in Procs : SyncTurn(p)
    \/ \E p \in Procs : SyncCommit(p)

SyncSpec == Init /\ [][SyncNext]_vars

(***************************************************************************)
(* The demo: reset, seed, detect, upload.  POST /api/seed is also served   *)
(* by seed_demo_data of app.py, which adds the same rows as                *)
(* _seed_demo_transactions and answers with the number of merchants of     *)
(* its list.                                                               *)
(***************************************************************************)
\* POST /api/seed of app.py (lines 174-197): "inserted": len(demo)
AppSeed ==
    /\ Len(SelectSeq(transactions, LAMBDA t : t.raw.seed)) < 3 * Len(SeedDemo) * MaxSeeds
    /\ transactions' = transactions \o SeedRows(DayOf(clock), NextId(transactions))
    /\ lastOp' = Returned("seed", "none", Len(SeedDemo))
    /\ UNCHANGED <<vendors, subscriptions, invoices, clock, proc, wlock>>

DemoNext ==
    \/ Reset
    \/ Seed
    \/ AppSeed
    \/ Detect
    \/ \E name \in TextractNames : Textract(name)
    \/ Tick

DemoSpec == Init /\ [][DemoNext]_vars

(***************************************************************************)
(* A database file that holds transactions synced on earlier days and no   *)
(* vendor or subscription yet: POST /api/detect is called on it, now and   *)
(* on the next day.  The ledgers tried hold one merchant each and vary the *)
(* amounts, the spacing of the dates, the age of the records and the       *)
(* spelling of the name.                                                   *)
(***************************************************************************)
CaseIds == <<"c1", "c2", "c3", "c4", "c5", "c6">>

\* the row the sync stores for a transaction named name (an optional str, in
\* merchant_name when it is truthy and in name), api_routes.py lines 245-265
LedgerRow(id, name, amount, date) ==
    PlaidRow([ transaction_id |-> Some(CaseIds[id]),
               merchant_name |-> IF Truthy(name) THEN name ELSE Null,
               name |-> name,
               amount |-> amount,
               iso_currency_code |-> Some(USD),
               date |-> date,
               pfc |-> Null ], id)

\* the ledger of entries [name, amount, date], in the order they were stored
Ledger(entries) ==
    [i \in 1..Len(entries) |->
        LedgerRow(i, entries[i].name, entries[i].amount, entries[i].date)]

\* amounts in cents, None for an amount the source did not give
Amounts3 == {Null, Some(0), Some(1000), Some(1500), Some(2000), Some(4000), Some(5000), Some(5001)}
Amounts4 == {Null, Some(0), Some(1000), Some(2000)}

\* one merchant charged every 30 days, the amounts varying
AmountLedgers ==
    { Ledger([i \in 1..3 |->
                [name |-> Some(NETFLIX), amount |-> amts[i], date |-> DaysAgo(<<0, 60, 30>>[i])]])
      : amts \in [1..3 -> Amounts3] }
    \cup
    { Ledger([i \in 1..4 |->
                [name |-> Some(NETFLIX), amount |-> amts[i], date |-> DaysAgo(<<30, 0, 90, 60>>[i])]])
      : amts \in [1..4 -> Amounts4] }

\* the rows of test_detect_basic_subscriptions_monthly (test_detection.py lines
\* 18-37): Netflix today, 30 and 60 days ago at 15.99, Starbucks 3, 11 and 20
\* days ago at 5.50, raw = {}
TestRow(id, name, amount, ago) ==
    [ id |-> id,
      vendor_id |-> Null,
      plaid_txn_id |-> Null,
      merchant_name |-> Some(name),
      amount |-> Some(amount),
      iso_currency_code |-> Some(USD),
      date |-> DaysAgo(ago),
      raw |-> [seed |-> FALSE, name |-> Null, pfc |-> Null] ]
TestLedger ==
    << TestRow(1, NETFLIX, 1599, 0), TestRow(2, NETFLIX, 1599, 30),
       TestRow(3, NETFLIX, 1599, 60), TestRow(4, STARBUCKS, 550, 3),
       TestRow(5, STARBUCKS, 550, 11), TestRow(6, STARBUCKS, 550, 20) >>

\* a date text that strptime turns down: 2025-02-30
BadDate == Some([y |-> 2025, m |-> 2, d |-> 30, pad |-> TRUE])

\* the ledger of one merchant charged amount on each of dates, in that order
Charges(name, amount, dates) ==
    Ledger([i \in 1..Len(dates) |-> [name |-> name, amount |-> Some(amount), date |-> dates[i]]])
\* the same with another amount on the first record
ChargesOddFirst(name, amount, odd, dates) ==
    Ledger([i \in 1..Len(dates) |->
              [name |-> name, amount |-> Some(IF i = 1 THEN odd ELSE amount), date |-> dates[i]]])

\* one merchant charged every 30 days, with records on the edge of the window,
\* beyond it, and with dates that do not parse or are missing; no record at
\* all, and records without any name
WindowLedgers ==
    { <<>>,
      Charges(Some(HULU), 799, <<DaysAgo(120), DaysAgo(150), DaysAgo(90)>>),
      Charges(Some(HULU), 799, <<DaysAgo(60), DaysAgo(150), DaysAgo(120), DaysAgo(90)>>),
      Charges(Some(HULU), 799, <<DaysAgo(119), DaysAgo(89), DaysAgo(149)>>),
      Charges(Some(HULU), 799, <<DaysAgo(151), DaysAgo(121), DaysAgo(91)>>),
      Charges(Some(HULU), 799, <<DaysAgo(30), DaysAgo(0)>>),
      Charges(Some(HULU), 799, <<BadDate, DaysAgo(30), DaysAgo(0)>>),
      Charges(Some(HULU), 799, <<Null, DaysAgo(30), DaysAgo(0)>>),
      Charges(Null, 799, <<DaysAgo(60), DaysAgo(30), DaysAgo(0)>>),
      ChargesOddFirst(Some(HULU), 799, 99900, <<DaysAgo(151), DaysAgo(120), DaysAgo(150), DaysAgo(90)>>),
      ChargesOddFirst(Some(HULU), 799, 99900, <<BadDate, DaysAgo(0), DaysAgo(60), DaysAgo(30)>>),
      ChargesOddFirst(Some(HULU), 799, 99900, <<Null, DaysAgo(0), DaysAgo(60), DaysAgo(30)>>) }

\* the gaps in days between the successive charges of a merchant that are tried
Gaps3 == {0, 26, 27, 28, 30, 32, 33, 34, 60}
Gaps4 == {0, 27, 33, 34}

\* one merchant charged the same amount 3 or 4 times, the last time today, the
\* gaps varying; the records are stored out of date order
CadenceLedgers ==
    { Charges(Some(DISNEY), 1099,
              <<DaysAgo(0), DaysAgo(g[1] + g[2]), DaysAgo(g[2])>>)
      : g \in [1..2 -> Gaps3] }
    \cup
    { Charges(Some(DISNEY), 1099,
              <<DaysAgo(g[3]), DaysAgo(0), DaysAgo(g[1] + g[2] + g[3]), DaysAgo(g[2] + g[3])>>)
      : g \in [1..3 -> Gaps4] }

\* merchant names that are empty or white space only
EMPTY_NAME == <<>>
BLANK_NAME == <<" ", " ">>

\* the ledger of monthly charges of 9.99, the last one today, under names
MonthlyUnder(names) ==
    Ledger([i \in 1..Len(names) |->
              [name |-> names[i], amount |-> Some(999), date |-> DaysAgo(30 * (Len(names) - i))]])

\* monthly charges whose source gave an empty name, blanks, or no name
NameLedgers ==
    { MonthlyUnder(<<Some(EMPTY_NAME), Some(EMPTY_NAME), Some(EMPTY_NAME)>>),
      MonthlyUnder(<<Some(BLANK_NAME), Some(BLANK_NAME), Some(BLANK_NAME)>>),
      MonthlyUnder(<<Some(EMPTY_NAME), Some(BLANK_NAME), Some(EMPTY_NAME)>>),
      MonthlyUnder(<<Some(EMPTY_NAME), Null, Some(EMPTY_NAME)>>),
      MonthlyUnder(<<Some(SPOTIFY), Some(EMPTY_NAME), Some(SPOTIFY), Null, Some(SPOTIFY)>>) }

\* a merchant name as another source writes it, with two blanks
ADOBE_WIDE == <<"A","d","o","b","e"," "," ","I","n","c",".">>

\* the ledger of charges of 29.99 under names[i], ago[i] days before the start
Spellings(names, ago) ==
    Ledger([i \in 1..Len(names) |->
              [name |-> Some(names[i]), amount |-> Some(2999), date |-> DaysAgo(ago[i])]])

\* one merchant charged every 30 days under several spellings of its name; in
\* three of the ledgers the record stored first is on the edge of the window
SpellingLedgers ==
    { Spellings(<<ADOBE_WIDE, ADOBE, ADOBE, ADOBE>>, <<150, 120, 90, 60>>),
      Spellings(<<ADOBE_UPPER, ADOBE, ADOBE, ADOBE>>, <<150, 120, 90, 60>>),
      Spellings(<<ADOBE, ADOBE_WIDE, ADOBE, ADOBE_UPPER>>, <<150, 120, 90, 60>>),
      Spellings(<<ADOBE, ADOBE_WIDE, ADOBE_UPPER>>, <<60, 30, 0>>) }

\* the days between the first and the last charge of a merchant that are tried
Spans3 == {53, 54, 60, 66, 67}
Spans4 == {80, 81, 90, 99, 100}

\* one merchant charged the same amount 3 or 4 times, the last time today and
\* the first time span days ago, the charges between them a day after the
\* first or a day before the last; the records are stored out of date order
UnevenLedgers ==
    UNION { { Charges(Some(SPOTIFY), 999, <<DaysAgo(mid), DaysAgo(0), DaysAgo(span)>>)
              : mid \in {1, span - 1} }
            : span \in Spans3 }
    \cup
    UNION { { Charges(Some(SPOTIFY), 999,
                      <<DaysAgo(mid), DaysAgo(0), DaysAgo(span), DaysAgo(mid + 1)>>)
              : mid \in {1, span - 2} }
            : span \in Spans4 }

Ledgers ==
    AmountLedgers \cup {TestLedger} \cup WindowLedgers \cup CadenceLedgers \cup NameLedgers
    \cup SpellingLedgers \cup UnevenLedgers

CaseInit ==
    /\ vendors = <<>>
    /\ transactions \in Ledgers
    /\ subscriptions = <<>>
    /\ invoices = <<>>
    /\ clock = 0
    /\ lastOp = Returned("start", "none", 0)
    /\ proc = [p \in Procs |-> IdleProc]
    /\ wlock = 0

CaseNext == Detect \/ Tick

CaseSpec == CaseInit /\ [][CaseNext]_vars

(***************************************************************************)
(* Properties                                                              *)
(***************************************************************************)
\* a step of POST /api/detect (the other handlers leave their own name in
\* lastOp, and Tick moves the clock)
DetectStep == lastOp'.op = "detect" /\ clock' = clock
StoreUnchanged ==
    /\ vendors' = vendors
    /\ transactions' = transactions
    /\ subscriptions' = subscriptions

\* C1: a detection run leaves the status of every subscription that is active
\* or cancelled (which only PATCH sets) as it is, and keeps the row.
C1_StatusPreserved ==
    [][DetectStep =>
        \A i \in 1..Len(subscriptions) :
            subscriptions[i].status \in {"active", "cancelled"} =>
                /\ i <= Len(subscriptions')
                /\ subscriptions'[i].id = subscriptions[i].id
                /\ subscriptions'[i].status = subscriptions[i].status]_vars

\* a run has refreshed a subscription that PATCH had made active and yearly
C1_Witness ==
    /\ lastOp.op = "detect" /\ lastOp.err = "none"
    /\ \E i \in 1..Len(subscriptions) :
         /\ subscriptions[i].status = "active"
         /\ subscriptions[i].interval = Some("monthly")
         /\ subscriptions[i].last_seen = lastOp.at

\* C2: over a detection run no subscription loses confidence, the stored value
\* being below, at or above 0.7.
C2_ConfidenceNotLowered ==
    [][DetectStep =>
        \A i \in 1..Len(subscriptions) :
            /\ i <= Len(subscriptions')
            /\ subscriptions'[i].vendor_id = subscriptions[i].vendor_id
            /\ subscriptions'[i].confidence >= subscriptions[i].confidence]_vars

\* a run has refreshed the stored subscription whose confidence is above 0.7
C2_Witness ==
    /\ lastOp.op = "detect" /\ lastOp.err = "none"
    /\ \E i \in 1..Len(subscriptions) :
         /\ subscriptions[i].confidence > 70
         /\ subscriptions[i].interval = Some("monthly")
         /\ ~IsNull(subscriptions[i].next_expected)

\* the second of two runs in a row on one day: the last answer given was a
\* successful detection of today, and this step is a successful detection
SecondRunOfDay ==
    /\ lastOp.op = "detect" /\ lastOp.err = "none"
    /\ DayOf(lastOp.at) = DayOf(clock)
    /\ DetectStep
    /\ lastOp'.err = "none"

\* C3 as stated: the second of two runs in a row on one day leaves every
\* Vendor and Subscription row as the first left it, last_seen included.
C3_Idempotent ==
    [][SecondRunOfDay => vendors' = vendors /\ subscriptions' = subscriptions]_vars

\* C3: the second of two runs in a row on one day leaves the vendors, the
\* transactions and every field of every subscription but last_seen as the
\* first left them; last_seen is kept or becomes the instant of the run.
C3_IdempotentButLastSeen ==
    [][SecondRunOfDay =>
        /\ vendors' = vendors
        /\ transactions' = transactions
        /\ Len(subscriptions') = Len(subscriptions)
        /\ \A i \in 1..Len(subscriptions) :
             /\ subscriptions'[i] =
                   [subscriptions[i] EXCEPT !.last_seen = subscriptions'[i].last_seen]
             /\ subscriptions'[i].last_seen \in {subscriptions[i].last_seen, clock}]_vars

\* a run has refreshed, later on the same day, a subscription that a run made
C3_Witness ==
    /\ lastOp.op = "detect" /\ lastOp.err = "none"
    /\ \E i \in 1..Len(subscriptions) :
         /\ subscriptions[i].last_seen = lastOp.at
         /\ subscriptions[i].first_seen < subscriptions[i].last_seen
         /\ DayOf(subscriptions[i].first_seen) = DayOf(subscriptions[i].last_seen)

\* C4 as stated: the committed rows never hold two vendors of one name nor two
\* subscriptions of one vendor_id, two runs going on at once.
C4_NoDuplicateRows ==
    /\ \A i, j \in 1..Len(vendors) : i # j => vendors[i].name # vendors[j].name
    /\ \A i, j \in 1..Len(subscriptions) :
         i # j => subscriptions[i].vendor_id # subscriptions[j].vendor_id

\* C5 as stated: no run ends with the uniqueness violation of its vendor insert.
C5_ViolationNotPropagated ==
    \A p \in Procs : proc[p].error # "IntegrityError"

\* C6: a detection run that fails leaves the committed vendors, transactions
\* and subscriptions as they were.
C6_FailedRunLeavesNothing ==
    [][(DetectStep /\ lastOp'.err # "none") => StoreUnchanged]_vars

\* a run has failed on a vendor lookup that found two rows, after it had
\* merged a group
C6_Witness ==
    /\ lastOp.op = "detect"
    /\ lastOp.err = "MultipleResultsFound"
    /\ lastOp.n >= 1

\* C7: there is at most one subscription for a vendor_id.
C7_OneSubscriptionPerVendor ==
    \A i, j \in 1..Len(subscriptions) :
        i # j => subscriptions[i].vendor_id # subscriptions[j].vendor_id

\* a run has found the subscriptions of earlier runs and updated them
C7_Witness ==
    /\ lastOp.op = "detect" /\ lastOp.err = "none"
    /\ Len(subscriptions) >= 2
    /\ \E i \in 1..Len(subscriptions) :
         /\ subscriptions[i].first_seen < lastOp.at
         /\ subscriptions[i].last_seen = lastOp.at

\* C8: every subscription names a vendor that exists, and so does every
\* transaction that names one.
C8_ReferentialIntegrity ==
    /\ \A i \in 1..Len(subscriptions) :
         /\ ~IsNull(subscriptions[i].vendor_id)
         /\ \E k \in 1..Len(vendors) : vendors[k].id = Val(subscriptions[i].vendor_id)
    /\ \A i \in 1..Len(transactions) :
         ~IsNull(transactions[i].vendor_id) =>
             \E k \in 1..Len(vendors) : vendors[k].id = Val(transactions[i].vendor_id)

\* runs have linked transactions and made subscriptions, one of them for the
\* vendor of an uploaded invoice
C8_Witness ==
    /\ \E i \in 1..Len(transactions) : ~IsNull(transactions[i].vendor_id)
    /\ Len(subscriptions) >= 3
    /\ \E i \in 1..Len(invoices) : invoices[i].vendor_id = Some(1)
    /\ \E k \in 1..Len(vendors) :
         /\ vendors[k].name = HULU
         /\ \E i \in 1..Len(subscriptions) : subscriptions[i].vendor_id = Some(vendors[k].id)

\* the merchant keys of txns with fewer than 3 records that are in the window
\* of today and not noise
SparseKeys(txns, today) ==
    Only({ Only({ {k \in {NormOf(named[i].merchant_name) : i \in 1..Len(named)} :
                      Cardinality({i \in 1..Len(keyOf) : keyOf[i] = Some(k)}) < 3}
                  : keyOf \in {[i \in 1..Len(named) |->
                                  IF Kept(named[i], today - WINDOW_DAYS)
                                  THEN Some(NormOf(named[i].merchant_name)) ELSE Null]} })
           : named \in {SelectSeq(txns, LAMBDA t : ~IsNull(t.merchant_name))} })

\* the merchant key a vendor row stands for
VendorKey(vs, vid) ==
    {NormOf(Some(vs[k].name)) : k \in {j \in 1..Len(vs) : Some(vs[j].id) = vid}}

\* C9: over a detection run, for a merchant with fewer than 3 in-window records
\* that are not noise: its transactions keep their vendor_id, no vendor is
\* made for it, and no subscription of it is made or changed.
C9_SparseMerchantUntouched ==
    [][(DetectStep /\ ~StoreUnchanged) =>
        \E sparse \in {SparseKeys(transactions, DayOf(clock))} :
          /\ Len(transactions') = Len(transactions)
          /\ \A i \in 1..Len(transactions) :
               (/\ ~IsNull(transactions[i].merchant_name)
                /\ NormOf(transactions[i].merchant_name) \in sparse)
               => transactions'[i] = transactions[i]
          /\ \A k \in 1..Len(vendors') :
               NormOf(Some(vendors'[k].name)) \in sparse
               => k <= Len(vendors) /\ vendors[k] = vendors'[k]
          /\ \A i \in 1..Len(subscriptions') :
               VendorKey(vendors', subscriptions'[i].vendor_id) \cap sparse # {}
               => i <= Len(subscriptions) /\ subscriptions[i] = subscriptions'[i]]_vars

\* a run has merged a group and left alone Disney, which has two charges, and
\* Hulu, whose first charge has left the window
C9_Witness ==
    /\ lastOp.op = "detect" /\ lastOp.err = "none"
    /\ \E i \in 1..Len(subscriptions) : subscriptions[i].last_seen = lastOp.at
    /\ \E i \in 1..Len(transactions) :
         /\ transactions[i].merchant_name = Some(DISNEY)
         /\ IsNull(transactions[i].vendor_id)
    /\ \E i \in 1..Len(transactions) :
         /\ transactions[i].merchant_name = Some(HULU)
         /\ IsNull(transactions[i].vendor_id)
    /\ \A k \in 1..Len(vendors) : vendors[k].name \notin {DISNEY, HULU}

\* a record the noise rule names: a blacklisted substring in the normalized
\* name, or a primary category of the exclusion set in any letter case
NoiseRecord(t) ==
    \/ BlacklistedOf(IF Truthy(t.merchant_name) THEN t.merchant_name ELSE t.raw.name)
    \/ Upper(OrEmpty(t.raw.pfc)) \in PFC_PRIMARY_EXCLUDE

\* C10: no noise record is linked to a vendor, no group a run would form holds
\* one, and every subscription is of a vendor that a record which is not noise
\* is linked to.
C10_NoiseExcluded ==
    /\ \A i \in 1..Len(transactions) :
         NoiseRecord(transactions[i]) => IsNull(transactions[i].vendor_id)
    /\ \E groups \in {Groups(transactions, DayOf(clock))} :
         \A k \in 1..Len(groups) :
           \A j \in 1..Len(groups[k].items) : ~NoiseRecord(groups[k].items[j])
    /\ \A i \in 1..Len(subscriptions) :
         \E j \in 1..Len(transactions) :
           /\ transactions[j].vendor_id = subscriptions[i].vendor_id
           /\ ~NoiseRecord(transactions[j])

\* a run has merged groups over a store that holds Starbucks, Gas Co (monthly,
\* blacklisted name) and Acme (monthly, excluded category)
C10_Witness ==
    /\ lastOp.op = "detect" /\ lastOp.err = "none" /\ lastOp.n >= 1
    /\ \A name \in {STARBUCKS, GAS_CO, ACME} :
         \E i \in 1..Len(transactions) :
           /\ transactions[i].merchant_name = Some(name)
           /\ NoiseRecord(transactions[i])

(***************************************************************************)
(* Properties of the rules of a run, stated on the records themselves      *)
(***************************************************************************)
\* the run of this step answered without error
DetectDone == DetectStep /\ lastOp'.err = "none"

\* after this step a subscription of a vendor of merchant key k bears the
\* instant of the run: the run has made or refreshed it
Upserted(k) ==
    \E v \in 1..Len(vendors') :
        /\ NormOf(Some(vendors'[v].name)) = k
        /\ \E i \in 1..Len(subscriptions') :
             /\ subscriptions'[i].vendor_id = Some(vendors'[v].id)
             /\ subscriptions'[i].last_seen = clock

\* the numeric amounts of records, in their order
NumericAmounts(items) ==
    Only({ [j \in 1..Len(idx) |-> Val(items[idx[j]].amount)]
           : idx \in {SelectSeq([i \in 1..Len(items) |-> i],
                                LAMBDA i : ~IsNull(items[i].amount))} })

\* the value of rank r, counted from 0, among vals in ascending order
Ranked(vals, r) ==
    CHOOSE m \in SeqToSet(vals) :
        /\ Cardinality({i \in 1..Len(vals) : vals[i] < m}) <= r
        /\ Cardinality({i \in 1..Len(vals) : vals[i] <= m}) > r

\* twice the median: the middle value, the mean of the two middle values of an
\* even count
TwiceMedian(vals) == Ranked(vals, (Len(vals) - 1) \div 2) + Ranked(vals, Len(vals) \div 2)
\* twice the value at index len // 2: the middle value, the upper of the two
\* middle values of an even count
TwiceUpperMiddle(vals) == 2 * Ranked(vals, Len(vals) \div 2)

\* the gate on numeric amounts vals in cents, mid2 being twice mid: fewer than
\* 3 amounts, or mid = 0, or spread <= 5.0, or spread / |mid| <= 0.25
GateHolds(vals, mid2) ==
    \/ Len(vals) < 3
    \/ mid2 = 0
    \/ \A i \in 1..Len(vals) : Abs(2 * vals[i] - mid2) <= 1000
    \/ \A i \in 1..Len(vals) : 4 * Abs(2 * vals[i] - mid2) <= Abs(mid2)

\* the dates of items, all parseable, span between 27 and 33 days a gap
SpanMonthly(items) ==
    \E ords \in {[i \in 1..Len(items) |-> Ordinal(Val(items[i].date))]} :
      \E lo \in {o \in SeqToSet(ords) : \A q \in SeqToSet(ords) : o <= q},
         hi \in {o \in SeqToSet(ords) : \A q \in SeqToSet(ords) : o >= q} :
        /\ 27 * (Len(items) - 1) <= hi - lo
        /\ hi - lo <= 33 * (Len(items) - 1)

\* the examples of the gate
GateExamples ==
    /\ ~AmountsConsistent(<<Some(550), Some(4500), Some(575)>>)
    /\ AmountsConsistent(<<Some(1599), Some(1599), Some(1649)>>)

\* C11 as stated: _amounts_consistent is true of the amounts of a group iff
\* fewer than 3 are numeric, or their median is 0, or the spread around the
\* median is within 5.0 or within a quarter of it; a run makes no subscription
\* for a group that fails the gate, and makes one for a monthly group of 3 or
\* more that passes; [5.50, 45.00, 5.75] fails and [15.99, 15.99, 16.49] passes.
C11_GateByMedian ==
    [][DetectDone =>
        /\ GateExamples
        /\ \E groups \in {Groups(transactions, DayOf(clock))} :
             \A k \in 1..Len(groups) :
               \E vals \in {NumericAmounts(groups[k].items)} :
                 \E gate \in {GateHolds(vals, TwiceMedian(vals))} :
                   /\ AmountsConsistent([j \in 1..Len(groups[k].items) |->
                                           groups[k].items[j].amount]) = gate
                   /\ ~gate => ~Upserted(groups[k].key)
                   /\ (gate /\ Len(groups[k].items) >= 3 /\ SpanMonthly(groups[k].items))
                        => Upserted(groups[k].key)]_vars

\* C11: the same with mid the value at index len // 2 of the sorted numeric
\* amounts, which for an even count is the upper of the two middle values.
C11_GateByUpperMiddle ==
    [][DetectDone =>
        /\ GateExamples
        /\ \E groups \in {Groups(transactions, DayOf(clock))} :
             \A k \in 1..Len(groups) :
               \E vals \in {NumericAmounts(groups[k].items)} :
                 \E gate \in {GateHolds(vals, TwiceUpperMiddle(vals))} :
                   /\ AmountsConsistent([j \in 1..Len(groups[k].items) |->
                                           groups[k].items[j].amount]) = gate
                   /\ ~gate => ~Upserted(groups[k].key)
                   /\ (gate /\ Len(groups[k].items) >= 3 /\ SpanMonthly(groups[k].items))
                        => Upserted(groups[k].key)]_vars

\* a run has turned down four monthly charges of 10, 10, 20 and 20, whose
\* median is 15 and whose upper middle value is 20
C11_Witness ==
    /\ lastOp.op = "detect" /\ lastOp.err = "none"
    /\ Len(transactions) = 4
    /\ \A i \in 1..4 : transactions[i].merchant_name = Some(NETFLIX)
    /\ [i \in 1..4 |-> transactions[i].amount] = <<Some(2000), Some(1000), Some(1000), Some(2000)>>
    /\ vendors = <<>>
    /\ subscriptions = <<>>

\* C12: on the store of three Netflix records of today, 30 and 60 days ago at
\* 15.99 and three Starbucks records 3, 11 and 20 days ago at 5.50, without
\* vendor or subscription, a run makes exactly one subscription, of the one
\* vendor it makes, Netflix: monthly, confidence 0.7, inferred, next expected
\* 30 days after today; there is no vendor for Starbucks.
C12_EndToEnd ==
    [][(/\ DetectDone
        /\ transactions = TestLedger
        /\ vendors = <<>>
        /\ subscriptions = <<>>
        /\ DayOf(clock) = Day0)
       => /\ Len(subscriptions') = 1
          /\ Len(vendors') = 1
          /\ vendors'[1].name = NETFLIX
          /\ subscriptions'[1].vendor_id = Some(vendors'[1].id)
          /\ subscriptions'[1].interval = Some("monthly")
          /\ subscriptions'[1].confidence = 70
          /\ subscriptions'[1].status = "inferred"
          /\ subscriptions'[1].next_expected = Some(IsoFormat(Day0 + 30))
          /\ \A v \in 1..Len(vendors') : Lower(vendors'[v].name) # Lower(STARBUCKS)]_vars

\* the run on the records of the test has made its subscription
C12_Witness ==
    /\ lastOp.op = "detect" /\ lastOp.err = "none" /\ lastOp.n = 1
    /\ Len(transactions) = 6
    /\ \A i \in 1..3 : transactions[i].merchant_name = Some(NETFLIX)
                       /\ transactions[i].vendor_id = Some(1)
    /\ \A i \in 4..6 : transactions[i].merchant_name = Some(STARBUCKS)
                       /\ IsNull(transactions[i].vendor_id)
    /\ Len(subscriptions) = 1
    /\ subscriptions[1].first_seen = subscriptions[1].last_seen
    /\ DayOf(subscriptions[1].last_seen) = Day0

\* the names of the vendors of the subscriptions after this step
SubscribedNames ==
    { vendors'[v].name : v \in { w \in 1..Len(vendors') :
          \E i \in 1..Len(subscriptions') : subscriptions'[i].vendor_id = Some(vendors'[w].id) } }

\* C13 as stated: a seed call that follows a reset leaves exactly 12
\* transactions and answers inserted = 12, and a detect call that follows it
\* lists exactly 3 subscriptions, of Netflix, Adobe Inc. and Spotify.
C13_DemoFlow ==
    [][/\ (lastOp.op = "reset" /\ lastOp'.op = "seed")
            => (Len(transactions') = 12 /\ lastOp'.n = 12)
       /\ (/\ lastOp.op = "seed"
           /\ Len(transactions) = 12
           /\ vendors = <<>>
           /\ subscriptions = <<>>
           /\ DetectDone)
            => /\ lastOp'.n = 3
               /\ Len(subscriptions') = 3
               /\ SubscribedNames = {NETFLIX, ADOBE, SPOTIFY}]_vars

\* a record whose date parses and is not older than 150 days on day today
InWindow(t, today) ==
    /\ ~IsNull(t.date)
    /\ Parses(Val(t.date))
    /\ Ordinal(Val(t.date)) >= today - 150

\* a record a run of day today is to group: named, in the window, not noise
Candidate(t, today) ==
    /\ ~IsNull(t.merchant_name)
    /\ InWindow(t, today)
    /\ ~NoiseRecord(t)

\* the records of txns that a run of day today is to group under key k
CandidatesOf(txns, k, today) ==
    SelectSeq(txns, LAMBDA t : Candidate(t, today) /\ NormOf(t.merchant_name) = k)

\* no key has 3 records to group on day today
NoGroupOfThree(txns, today) ==
    \A i \in 1..Len(txns) :
        Candidate(txns[i], today)
        => Len(CandidatesOf(txns, NormOf(txns[i].merchant_name), today)) < 3

\* C14: a run over a store without transactions, or in which no merchant key
\* has 3 records to group, ends without an error of its own (the database may
\* fail it at the commit, never where there is nothing to load), leaves every
\* vendor, transaction and subscription as it was, and lists the subscriptions
\* there were.
C14_EmptyInputNoError ==
    [][(DetectStep /\ NoGroupOfThree(transactions, DayOf(clock)))
       => /\ lastOp'.err \in {"none", "StorageError"}
          /\ (\A i \in 1..Len(transactions) : IsNull(transactions[i].merchant_name))
                => lastOp'.err = "none"
          /\ StoreUnchanged
          /\ lastOp'.err = "none" => lastOp'.n = Len(subscriptions)]_vars

\* a run has left alone the vendor and the subscription of a merchant whose
\* oldest of three records has left the window since the run that made them
C14_Witness ==
    /\ lastOp.op = "detect" /\ lastOp.err = "none"
    /\ NoGroupOfThree(transactions, DayOf(clock))
    /\ Len(transactions) = 3
    /\ Len(vendors) = 1
    /\ Len(subscriptions) = 1
    /\ subscriptions[1].last_seen < lastOp.at

\* C15 as stated: no two transaction rows bear the same plaid_txn_id, whatever
\* the responses list and however the syncs overlap (so that no transaction
\* that is stored is stored again).
C15_ExternalIdUnique ==
    \A i, j \in 1..Len(transactions) :
        (i # j /\ ~IsNull(transactions[i].plaid_txn_id))
        => transactions[i].plaid_txn_id # transactions[j].plaid_txn_id

\* the merchant keys of the records a run of day today is to group
CandidateKeys(txns, today) ==
    { NormOf(txns[i].merchant_name) : i \in {j \in 1..Len(txns) : Candidate(txns[j], today)} }

\* the days of records, in ascending order, and the gaps between them
DaysSorted(items) == SortNums([i \in 1..Len(items) |-> Ordinal(Val(items[i].date))])
DayGaps(items) ==
    Only({ [i \in 1..(Len(days) - 1) |-> days[i + 1] - days[i]] : days \in {DaysSorted(items)} })
\* 27 <= mean(gaps) <= 33
MeanInBand(gaps) ==
    /\ Len(gaps) > 0
    /\ 27 * Len(gaps) <= SumOf(gaps)
    /\ SumOf(gaps) <= 33 * Len(gaps)

\* after this step every subscription of a vendor of key k expects the next
\* charge on day
NextExpectedOn(k, day) ==
    \A v \in 1..Len(vendors') :
        NormOf(Some(vendors'[v].name)) = k
        => \A i \in 1..Len(subscriptions') :
             subscriptions'[i].vendor_id = Some(vendors'[v].id)
             => subscriptions'[i].next_expected = Some(IsoFormat(day))

\* C16: for a merchant key with n >= 3 records to group whose amounts pass the
\* gate, a run makes or refreshes a subscription iff the mean of the n-1 gaps
\* between the records in date order is at least 27 and at most 33, and then
\* the subscription expects the next charge 30 days after the latest record.
C16_CadenceBand ==
    [][DetectDone =>
        \A k \in CandidateKeys(transactions, DayOf(clock)) :
          \E items \in {CandidatesOf(transactions, k, DayOf(clock))} :
            \E vals \in {NumericAmounts(items)} :
              (Len(items) >= 3 /\ GateHolds(vals, TwiceUpperMiddle(vals)))
              => \E days \in {DaysSorted(items)} :
                   /\ Upserted(k) <=> MeanInBand(DayGaps(items))
                   /\ MeanInBand(DayGaps(items)) => NextExpectedOn(k, days[Len(days)] + 30)]_vars

\* a run has made a subscription for three charges 26 and 28 days apart, whose
\* mean gap is 27
C16_Witness ==
    /\ lastOp.op = "detect" /\ lastOp.err = "none"
    /\ Len(transactions) = 3
    /\ \A i \in 1..3 : transactions[i].merchant_name = Some(DISNEY)
    /\ DayGaps(transactions) = <<26, 28>>
    /\ Len(subscriptions) = 1
    /\ subscriptions[1].interval = Some("monthly")

\* C17 as stated: for a merchant key whose records to group fall on fewer than
\* 3 distinct days, however many they are, a run makes no vendor and makes or
\* refreshes no subscription.
C17_DistinctDates ==
    [][DetectDone =>
        \A k \in CandidateKeys(transactions, DayOf(clock)) :
          Cardinality(SeqToSet(DaysSorted(CandidatesOf(transactions, k, DayOf(clock))))) < 3
          => /\ ~Upserted(k)
             /\ \A v \in 1..Len(vendors') :
                  NormOf(Some(vendors'[v].name)) = k => v <= Len(vendors)]_vars

\* a merchant name that is absent, empty or white space only
BlankName(o) == IsNull(o) \/ \A c \in SeqToSet(Val(o)) : IsSpace(c)

\* C18 as stated: a run links no record whose merchant name is absent, empty or
\* white space only to a vendor, makes no vendor with such a name, and makes
\* or refreshes no subscription for such records.
C18_BlankNamesNotGrouped ==
    [][DetectDone =>
        /\ \A i \in 1..Len(transactions) :
             BlankName(transactions[i].merchant_name) => IsNull(transactions'[i].vendor_id)
        /\ \A v \in 1..Len(vendors') : ~BlankName(Some(vendors'[v].name))
        /\ ~Upserted(<<>>)]_vars

\* the ids of records
IdsOf(items) == {items[i].id : i \in 1..Len(items)}

\* C19: the groups of a run hold the named records that are not noise and whose
\* date parses and is not older than 150 days, a record dated 150 days ago
\* included, and no other; the group size, the cadence and the amount gate
\* that decide on a subscription are those of these records; a record that is
\* older or whose date does not parse keeps its vendor_id, and the run does
\* not fail on it.
C19_WindowFilter ==
    [][DetectStep =>
        /\ lastOp'.err \in {"none", "StorageError"}
        /\ \E groups \in {Groups(transactions, DayOf(clock))} :
             /\ {groups[g].key : g \in 1..Len(groups)} = CandidateKeys(transactions, DayOf(clock))
             /\ \A g \in 1..Len(groups) :
                  IdsOf(groups[g].items)
                    = IdsOf(CandidatesOf(transactions, groups[g].key, DayOf(clock)))
        /\ DetectDone =>
             /\ \A k \in CandidateKeys(transactions, DayOf(clock)) :
                  \E items \in {CandidatesOf(transactions, k, DayOf(clock))} :
                    \E vals \in {NumericAmounts(items)} :
                      Upserted(k) <=> /\ Len(items) >= 3
                                      /\ MeanInBand(DayGaps(items))
                                      /\ GateHolds(vals, TwiceUpperMiddle(vals))
             /\ \A i \in 1..Len(transactions) :
                  ~InWindow(transactions[i], DayOf(clock))
                  => transactions'[i].vendor_id = transactions[i].vendor_id]_vars

\* a run has made a subscription from three charges, the oldest dated 150 days
\* ago, next to an older record of another amount, which it has not linked
C19_Witness ==
    /\ lastOp.op = "detect" /\ lastOp.err = "none"
    /\ Len(transactions) = 4
    /\ Len(subscriptions) = 1
    /\ subscriptions[1].last_seen = lastOp.at
    /\ \E i \in 1..4 :
         /\ InWindow(transactions[i], DayOf(lastOp.at))
         /\ Ordinal(Val(transactions[i].date)) = DayOf(lastOp.at) - 150
         /\ ~IsNull(transactions[i].vendor_id)
    /\ \E i \in 1..4 :
         /\ ~IsNull(transactions[i].date)
         /\ ~InWindow(transactions[i], DayOf(lastOp.at))
         /\ transactions[i].amount = Some(99900)
         /\ IsNull(transactions[i].vendor_id)

\* the records to group under key k on day today make a group that a run
\* merges: 3 or more, the mean gap in the band, the amounts through the gate
Qualifying(txns, k, today) ==
    \E items \in {CandidatesOf(txns, k, today)} :
      \E vals \in {NumericAmounts(items)} :
        /\ Len(items) >= 3
        /\ MeanInBand(DayGaps(items))
        /\ GateHolds(vals, TwiceUpperMiddle(vals))

\* the day of the latest of the records to group under key k
LatestDay(txns, k, today) ==
    Only({ days[Len(days)] : days \in {DaysSorted(CandidatesOf(txns, k, today))} })

\* C20: a run that finds a subscription of the vendor of a qualifying group
\* sets its interval to monthly and its next_expected to the latest date of
\* the group plus 30 days, whatever PATCH had set them to, and leaves its
\* status as it was.
C20_RefreshOverwrites ==
    [][DetectDone =>
        \A i \in 1..Len(subscriptions), v \in 1..Len(vendors) :
          subscriptions[i].vendor_id = Some(vendors[v].id)
          => \E k \in {NormOf(Some(vendors[v].name))} :
               Qualifying(transactions, k, DayOf(clock))
               => /\ subscriptions'[i].id = subscriptions[i].id
                  /\ subscriptions'[i].interval = Some("monthly")
                  /\ subscriptions'[i].next_expected
                       = Some(IsoFormat(LatestDay(transactions, k, DayOf(clock)) + 30))
                  /\ subscriptions'[i].status = subscriptions[i].status]_vars

\* a run has refreshed a subscription that PATCH had made active, yearly and
\* due on 2026-01-01: it is monthly again and due 30 days after a charge
C20_Witness ==
    /\ lastOp.op = "detect" /\ lastOp.err = "none"
    /\ \E i \in 1..Len(subscriptions) :
         /\ subscriptions[i].status = "active"
         /\ subscriptions[i].interval = Some("monthly")
         /\ subscriptions[i].next_expected # Some([y |-> 2026, m |-> 1, d |-> 1, pad |-> TRUE])
         /\ subscriptions[i].first_seen < subscriptions[i].last_seen
         /\ subscriptions[i].last_seen = lastOp.at

(***************************************************************************)
(* Properties of the vendor a run resolves for a group                     *)
(***************************************************************************)
\* the display name of the records to group under key k: the first merchant
\* name among them, in the order they were stored, that is not empty, k if
\* there is none
DisplayOf(txns, k, today) ==
    Only({ IF named = <<>> THEN k ELSE Val(named[1].merchant_name)
           : named \in {SelectSeq(CandidatesOf(txns, k, today),
                                  LAMBDA t : Val(t.merchant_name) # <<>>)} })

\* the positions of the vendor rows vs whose name is name but for letter case
SameNameIgnoringCase(vs, name) ==
    {v \in 1..Len(vs) : Lower(vs[v].name) = Lower(name)}

\* over this step the records to group under key k came to be linked to the
\* vendor of id vid, all of them
AllLinkedTo(k, vid) ==
    \A i \in 1..Len(transactions) :
        (/\ Candidate(transactions[i], DayOf(clock))
         /\ NormOf(transactions[i].merchant_name) = k)
        => transactions'[i].vendor_id = Some(vid)

\* what a run is to do about the vendor of the qualifying key k, the display
\* name of its records being d: reuse the vendor of that name (letter case
\* apart) if there is one, and only if there is none make one, named d, whose
\* id no row referred to before
VendorResolved(k, d) ==
    \E old \in {SameNameIgnoringCase(vendors, d)},
       new \in {{v \in SameNameIgnoringCase(vendors', d) : v > Len(vendors)}} :
      IF old # {}
      THEN /\ new = {}
           /\ \E v \in old : AllLinkedTo(k, vendors[v].id)
      ELSE /\ Cardinality(new) = 1
           /\ \A v \in new :
                /\ vendors'[v].name = d
                /\ AllLinkedTo(k, vendors'[v].id)
                /\ \A w \in 1..Len(vendors) : vendors[w].id # vendors'[v].id
                /\ \A i \in 1..Len(transactions) :
                     transactions[i].vendor_id # Some(vendors'[v].id)
                /\ \A i \in 1..Len(subscriptions) :
                     subscriptions[i].vendor_id # Some(vendors'[v].id)

\* C21 as stated: a run during which the database stays up resolves the vendor
\* of every qualifying group: it reuses the vendor whose name is the display
\* name of the group but for letter case, whoever made it, makes no vendor
\* then and links every record of the group to it; if there is none it makes
\* one vendor, named with the first non-empty merchant name of the group in
\* load order, whose id exists before a record or subscription refers to it.
C21_VendorResolution ==
    [][(DetectStep /\ lastOp'.err # "StorageError") =>
        \A k \in CandidateKeys(transactions, DayOf(clock)) :
          Qualifying(transactions, k, DayOf(clock))
          => VendorResolved(k, DisplayOf(transactions, k, DayOf(clock)))]_vars

\* C22 as stated: whatever uploads and runs there have been, no two vendor
\* rows have names that are equal but for letter case, and no run has failed
\* on a vendor lookup that matched more than one row.
C22_NoCaseEqualVendors ==
    /\ \A v, w \in 1..Len(vendors) :
         v # w => Lower(vendors[v].name) # Lower(vendors[w].name)
    /\ ~(lastOp.op = "detect" /\ lastOp.err = "MultipleResultsFound")

\* the merchant keys of the records of txns that bear a name
NamedKeys(txns) ==
    { NormOf(txns[i].merchant_name) : i \in {j \in 1..Len(txns) : ~IsNull(txns[j].merchant_name)} }

\* the vendors that records of key k are linked to, and the subscriptions of
\* vendors whose name has key k
VendorsLinkedTo(k) ==
    { Val(transactions[i].vendor_id) :
        i \in {j \in 1..Len(transactions) :
                 /\ ~IsNull(transactions[j].merchant_name)
                 /\ NormOf(transactions[j].merchant_name) = k
                 /\ ~IsNull(transactions[j].vendor_id)} }
SubscriptionsOfKey(k) ==
    { i \in 1..Len(subscriptions) :
        \E v \in 1..Len(vendors) :
          /\ subscriptions[i].vendor_id = Some(vendors[v].id)
          /\ NormOf(Some(vendors[v].name)) = k }

\* C23 as stated: whatever runs there have been and whichever records have
\* left the window, the records of one normalized merchant key that are linked
\* are linked to one and the same vendor, and the key has at most one
\* subscription.
C23_OneVendorPerKey ==
    \A k \in NamedKeys(transactions) :
        /\ Cardinality(VendorsLinkedTo(k)) <= 1
        /\ Cardinality(SubscriptionsOfKey(k)) <= 1

\* the date texts of records are written with two digits for month and day
ZeroPadded(items) == \A i \in 1..Len(items) : Val(items[i].date).pad

\* C24: for a merchant key with n >= 3 records to group whose dates are
\* zero-padded and whose amounts pass the gate, a run makes or refreshes a
\* subscription iff 27*(n-1) <= latest - earliest <= 33*(n-1) in days, however
\* the dates between the earliest and the latest are spaced.
C24_SpanDecides ==
    [][DetectDone =>
        \A k \in CandidateKeys(transactions, DayOf(clock)) :
          \E items \in {CandidatesOf(transactions, k, DayOf(clock))} :
            \E vals \in {NumericAmounts(items)} :
              (/\ Len(items) >= 3
               /\ ZeroPadded(items)
               /\ GateHolds(vals, TwiceUpperMiddle(vals)))
              => (Upserted(k) <=> SpanMonthly(items))]_vars

\* a run has made a subscription for three charges on days 0, 1 and 60
C24_Witness ==
    /\ lastOp.op = "detect" /\ lastOp.err = "none"
    /\ Len(transactions) = 3
    /\ \A i \in 1..3 : ~IsNull(transactions[i].vendor_id)
    /\ DayGaps(transactions) = <<1, 59>>
    /\ Len(subscriptions) = 1
    /\ subscriptions[1].interval = Some("monthly")

\* the display names, in lower case, of the groups that qualify in a run over
\* txns on day today
QualifyingDisplays(txns, today) ==
    { Lower(DisplayOf(txns, k, today)) :
        k \in {q \in CandidateKeys(txns, today) : Qualifying(txns, q, today)} }

\* C25: a run, whether it ends well or not, deletes no vendor, transaction or
\* subscription row, changes the name of no vendor there was, changes no
\* field of a transaction but vendor_id, and leaves every field of a
\* subscription as it was when no group that qualifies in the run has the
\* name of the subscription's vendor.
C25_Frame ==
    [][DetectStep =>
        /\ Len(vendors') >= Len(vendors)
        /\ \A v \in 1..Len(vendors) : vendors'[v] = vendors[v]
        /\ Len(transactions') = Len(transactions)
        /\ \A i \in 1..Len(transactions) :
             transactions'[i] = [transactions[i] EXCEPT !.vendor_id = transactions'[i].vendor_id]
        /\ Len(subscriptions') >= Len(subscriptions)
        /\ \A i \in 1..Len(subscriptions) : subscriptions'[i].id = subscriptions[i].id
        /\ (\E i \in 1..Len(subscriptions) : subscriptions'[i] # subscriptions[i])
             => \E merged \in {QualifyingDisplays(transactions, DayOf(clock))} :
                  \A i \in 1..Len(subscriptions), v \in 1..Len(vendors) :
                    (/\ subscriptions[i].vendor_id = Some(vendors[v].id)
                     /\ Lower(vendors[v].name) \notin merged)
                    => subscriptions'[i] = subscriptions[i]]_vars

\* a run has refreshed a subscription and left alone, with every field as it
\* was, that of Hulu, whose first charge has left the window since the run
\* that made it; the Hulu records keep the vendor they were linked to
C25_Witness ==
    /\ lastOp.op = "detect" /\ lastOp.err = "none"
    /\ \E i \in 1..Len(subscriptions) : subscriptions[i].last_seen = lastOp.at
    /\ \E v \in 1..Len(vendors) :
         /\ vendors[v].name = HULU
         /\ Lower(HULU) \notin QualifyingDisplays(transactions, DayOf(lastOp.at))
         /\ \E i \in 1..Len(subscriptions) :
              /\ subscriptions[i].vendor_id = Some(vendors[v].id)
              /\ subscriptions[i].last_seen < lastOp.at
              /\ DayOf(subscriptions[i].last_seen) < DayOf(lastOp.at)
         /\ \E i \in 1..Len(transactions) :
              /\ transactions[i].merchant_name = Some(HULU)
              /\ transactions[i].vendor_id = Some(vendors[v].id)

=============================================================================
